---- MODULE Spec2Model ----
(***************************************************************************)
(* Country API service (src/main.py): the refresh pipeline, the query,     *)
(* lookup, delete and status handlers, run by concurrent request threads   *)
(* against one PostgreSQL table `countries` (READ COMMITTED, one           *)
(* connection and one transaction per request).                            *)
(*                                                                         *)
(* Strings are sequences of one-character strings, so that lower() and     *)
(* ILIKE are computed and not assumed.  A Python/SQL value that may be     *)
(* None/NULL is None == <<>> or Some(v) == <<v>>.                          *)
(***************************************************************************)
EXTENDS Integers, Sequences, FiniteSets, TLC

\* ---------------------------------------------------------------- bounds
Procs == {1, 2}
MaxCalls == 3
MaxClock == 1

\* ---------------------------------------------------------------- values
None == <<>>
Some(v) == <<v>>

\* `if x:` on an Optional[str]: None and "" are both falsy
Truthy(s) == s /= None /\ s[1] /= <<>>

sAb == <<"A", "b">>
sab == <<"a", "b">>
sZu == <<"Z", "u">>
sEU == <<"E", "U">>
sAs == <<"A", "s">>
sX == <<"X">>
sY == <<"Y">>
sW == <<"W">>
sQ == <<"Q">>

\* str.lower() on one character of the modelled alphabet
LowerChar(c) ==
  CASE c = "A" -> "a" [] c = "B" -> "b" [] c = "E" -> "e" [] c = "G" -> "g"
    [] c = "D" -> "d" [] c = "P" -> "p" [] c = "S" -> "s" [] c = "C" -> "c"
    [] c = "U" -> "u" [] c = "X" -> "x" [] c = "Y" -> "y" [] c = "W" -> "w"
    [] c = "Q" -> "q" [] c = "Z" -> "z" [] OTHER -> c

Lower(s) == [i \in 1..Len(s) |-> LowerChar(s[i])]

\* PostgreSQL `s ILIKE pat`: case-insensitive, % matches any run, _ any one
RECURSIVE ILike(_, _)
ILike(s, pat) ==
  IF pat = <<>> THEN s = <<>>
  ELSE IF Head(pat) = "%"
       THEN ILike(s, Tail(pat)) \/ (s /= <<>> /\ ILike(Tail(s), pat))
       ELSE /\ s /= <<>>
            /\ (Head(pat) = "_" \/ LowerChar(Head(s)) = LowerChar(Head(pat)))
            /\ ILike(Tail(s), Tail(pat))

\* one element of the metadata API's JSON list (the keys main.py reads)
Country(n, cap, reg, pop, fl, cur) ==
  [name |-> n, capital |-> cap, region |-> reg, population |-> pop,
   flag |-> fl, currencies |-> cur]

Cur(code) == Some(<<[code |-> code]>>)

cAb == Country(Some(sAb), Some(<<"c">>), Some(sEU), Some(4), Some(<<"f">>), Cur(Some(sX)))
cab == Country(Some(sab), None, Some(sAs), Some(2), None, Cur(Some(sY)))
\* a currency code the rate table does not list
cZu == Country(Some(sZu), None, None, Some(0), None, Cur(Some(sQ)))
\* a second record for an existing name; its currency has rate 0
cAbNew == Country(Some(sAb), None, Some(sAs), Some(2), None, Cur(Some(sW)))
\* currencies [], currencies missing, code missing, code ""
cZuNoList == Country(Some(sZu), None, Some(sEU), Some(2), None, Some(<<>>))
cZuNoCur == Country(Some(sZu), None, Some(sEU), Some(2), None, None)
cZuNoCode == Country(Some(sZu), None, Some(sEU), Some(2), None, Cur(None))
cZuEmptyCode == Country(Some(sZu), None, Some(sEU), Some(2), None, Cur(Some(<<>>)))
\* records that fail validation
cNegPop == Country(Some(sZu), None, None, Some(-5), None, None)
cNoPop == Country(Some(sab), None, None, None, None, Cur(Some(sX)))
cNoName == Country(None, None, None, Some(2), None, None)
cEmptyName == Country(Some(<<>>), None, None, Some(2), None, Cur(Some(sX)))

\* seven countries for the report: with rates X = 2 and Y = 1 and the
\* multiplier 1000 their gdps are 5000, 4000, 3000, 3000, 2000, 2000, null
k1 == Country(Some(<<"k", "1">>), None, Some(sEU), Some(10), None, Cur(Some(sX)))
k2 == Country(Some(<<"k", "2">>), None, Some(sEU), Some(4), None, Cur(Some(sY)))
k3 == Country(Some(<<"k", "3">>), None, Some(sEU), Some(6), None, Cur(Some(sX)))
k4 == Country(Some(<<"k", "4">>), None, Some(sAs), Some(3), None, Cur(Some(sY)))
k5 == Country(Some(<<"k", "5">>), None, Some(sAs), Some(2), None, Cur(Some(sY)))
k6 == Country(Some(<<"k", "6">>), None, Some(sAs), Some(4), None, Cur(Some(sX)))
k7 == Country(Some(<<"k", "7">>), None, None, Some(8), None, Cur(Some(sQ)))
\* k6 with a currency the rate table does not list
k6NoRate == Country(Some(<<"k", "6">>), None, Some(sAs), Some(4), None, Cur(Some(sQ)))

\* the lists requests.get(...).json() may yield for the metadata source
Feeds ==
  { <<cAb, cab>>, <<cZu, cab>>, <<cAb, cAbNew>>, <<cAbNew, cab>>,
    <<cZuNoList, cZuNoCur, cZuNoCode, cZuEmptyCode>>,
    <<cAb, cNegPop>>, <<cNoPop>>, <<cab, cNoName>>, <<cEmptyName, cab>> }

\* the JSON objects the rate source may yield: "rates" present, or absent
RateTables ==
  { [rates |-> Some((sX :> 2) @@ (sY :> 1) @@ (sW :> 0))],
    [rates |-> None] }

\* randint(1000, 2000), the two ends of the range
Multipliers == {1000, 2000}


\* ----------------------------------------------------------------- state
VARIABLES
  db,                 \* committed rows of table countries
  nextId,             \* the id sequence of the table
  clock,              \* datetime.now(timezone.utc)
  report,             \* cache/summary.png: None or Some(content)
  orphans,            \* connections never closed: held write locks -> count
  nCalls,             \* requests started so far
  lastCommitter,      \* the request thread whose commit was the latest
  pc,                 \* per thread: position in its handler
  call,               \* per thread: the request being (or last) served
  country_data,       \* per thread: refresh local
  exchange_rate_data, \* per thread: refresh local
  last_refreshed_at,  \* per thread: refresh local
  idx,                \* per thread: position of the for loop in country_data
  tx,                 \* per thread: rows written by its open transaction
  scratch,            \* per thread: total_countries / top_gdp / country_count
  res,                \* per thread: the response of its last request
  before              \* per thread: what the store and the report would be
                      \* had this thread's request written nothing

vars == <<db, nextId, clock, report, orphans, nCalls, lastCommitter, pc, call,
          country_data, exchange_rate_data, last_refreshed_at, idx, tx,
          scratch, res, before>>

NoCall == [op |-> "none", during |-> {}]
NoRes == [status |-> 0]

Init ==
  /\ db = {}
  /\ nextId = 1
  /\ clock = 0
  /\ report = None
  /\ orphans = [S \in {} |-> 0]
  /\ nCalls = 0
  /\ lastCommitter = 0
  /\ pc = [p \in Procs |-> "idle"]
  /\ call = [p \in Procs |-> NoCall]
  /\ country_data = [p \in Procs |-> None]
  /\ exchange_rate_data = [p \in Procs |-> None]
  /\ last_refreshed_at = [p \in Procs |-> None]
  /\ idx = [p \in Procs |-> 0]
  /\ tx = [p \in Procs |-> {}]
  /\ scratch = [p \in Procs |-> None]
  /\ res = [p \in Procs |-> NoRes]
  /\ before = [p \in Procs |-> None]

\* ------------------------------------------------------- store semantics
NamesOf(rows) == {r.name : r \in rows}

\* the table after a transaction's row versions replace the rows they rewrote
Apply(table, written) ==
  {r \in table : \A w \in written : w.id /= r.id} \cup written

\* what a statement of thread p reads: committed rows and p's own writes
Visible(p) == Apply(db, tx[p])

\* orphans with one more / one fewer connection holding locks on names S
OrphanCount(S) == IF S \in DOMAIN orphans THEN orphans[S] ELSE 0
Leak(S) == [T \in DOMAIN orphans \cup {S} |->
              IF T = S THEN OrphanCount(S) + 1 ELSE orphans[T]]
Unleak(S) == [T \in {U \in DOMAIN orphans : U /= S \/ orphans[U] > 1} |->
              IF T = S THEN orphans[T] - 1 ELSE orphans[T]]

\* a row or unique-index entry for name n is held by an open transaction
\* other than p's
LockedByOther(p, n) ==
  \/ \E q \in Procs \ {p} : n \in NamesOf(tx[q])
  \/ \E S \in DOMAIN orphans : orphans[S] > 0 /\ n \in S


\* what `before` becomes when thread p commits (or saves the report): the
\* other threads' requests still have written nothing of the new state
Rebase(p, newDb, newReport) ==
  [q \in Procs |->
     IF q = p \/ before[q] = None THEN None
     ELSE Some([db |-> newDb, report |-> newReport])]

\* the connection put in autocommit mode
AutoCommitMut == TRUE

\* init_connection(): psycopg2's default, autocommit off, so that statements
\* take effect for other connections at conn.commit() only
AutoCommit == FALSE

\* ---------------------------------------------------------------- refresh
\* lines 76-86: the currency logic
CurrencyCode(country) ==
  IF country.currencies /= None /\ Len(country.currencies[1]) > 0
  THEN country.currencies[1][1].code
  ELSE None

\* exchange_rate_data.get("rates", {}).get(currency_code)
RateOf(rate_data, code) ==
  IF rate_data.rates /= None /\ code \in DOMAIN rate_data.rates[1]
  THEN Some(rate_data.rates[1][code])
  ELSE None

\* a currency the table does not list taken at rate 1
ExchangeRateMut(country, rate_data) ==
  IF Truthy(CurrencyCode(country))
  THEN IF RateOf(rate_data, CurrencyCode(country)[1]) = None
       THEN Some(1)
       ELSE RateOf(rate_data, CurrencyCode(country)[1])
  ELSE None

ExchangeRate(country, rate_data) ==
  IF Truthy(CurrencyCode(country))
  THEN RateOf(rate_data, CurrencyCode(country)[1])
  ELSE None

\* a rate of 0 divided by as if it were 1
EstimatedGdpMut(country, rate_data, mult) ==
  LET exchange_rate == ExchangeRate(country, rate_data) IN
  IF exchange_rate /= None
  THEN Some((country.population[1] * mult)
              \div (IF exchange_rate[1] = 0 THEN 1 ELSE exchange_rate[1]))
  ELSE None

\* `if exchange_rate:` is false for None and for 0.  Every modelled rate
\* divides population * multiplier, so \div is the exact quotient.
EstimatedGdp(country, rate_data, mult) ==
  LET exchange_rate == ExchangeRate(country, rate_data) IN
  IF exchange_rate /= None /\ exchange_rate[1] /= 0
  THEN Some((country.population[1] * mult) \div exchange_rate[1])
  ELSE None

\* the check `population < 0` left out
ValidateMut(country) ==
  IF ~Truthy(country.name) THEN "name"
  ELSE IF country.population = None THEN "population" ELSE "ok"

\* lines 70-73: "ok", or the field the 400 response names
Validate(country) ==
  IF ~Truthy(country.name) THEN "name"
  ELSE IF country.population = None \/ country.population[1] < 0
       THEN "population"
       ELSE "ok"

\* the timestamp taken inside the loop, once per record
BatchStampMut(p) == clock

\* the last_refreshed_at bound to the INSERT's last parameter
BatchStamp(p) == last_refreshed_at[p][1]

\* the VALUES tuple of the INSERT (line 102), with the id the row gets
NewRow(p, id, country, mult) ==
  [id |-> id,
   name |-> country.name[1],
   capital |-> country.capital,
   region |-> country.region,
   population |-> country.population[1],
   currency_code |-> CurrencyCode(country),
   exchange_rate |-> ExchangeRate(country, exchange_rate_data[p][1]),
   estimated_gdp |-> EstimatedGdp(country, exchange_rate_data[p][1], mult),
   flag_url |-> country.flag,
   last_refreshed_at |-> BatchStamp(p)]

\* a plain INSERT into a table without the unique index
ConflictRowsMut(p, n) == {}

\* ON CONFLICT (name): the rows the INSERT conflicts with
ConflictRows(p, n) == {r \in Visible(p) : r.name = n}

\* the conflicting row replaced by a freshly numbered one
UpdatedRowMut(p, old, country, mult) == NewRow(p, nextId, country, mult)

\* DO UPDATE SET ...: every column but id and name is overwritten
UpdatedRow(p, old, country, mult) == NewRow(p, old.id, country, mult)

CurrentCountry(p) == country_data[p][1][idx[p]]
InLoop(p) == pc[p] = "r_loop" /\ idx[p] <= Len(country_data[p][1])

\* every handler begins by opening its connection; the request is kept with
\* the threads whose transactions held uncommitted writes when it began
BeginCall(p, c) ==
  /\ pc[p] = "idle"
  /\ nCalls < MaxCalls
  /\ nCalls' = nCalls + 1
  /\ call' = [call EXCEPT ![p] =
                c @@ [during |-> {q \in Procs \ {p} : tx[q] /= {}}]]
  /\ country_data' = [country_data EXCEPT ![p] = None]
  /\ exchange_rate_data' = [exchange_rate_data EXCEPT ![p] = None]
  /\ last_refreshed_at' = [last_refreshed_at EXCEPT ![p] = None]
  /\ idx' = [idx EXCEPT ![p] = 0]

StartCall(p, c) ==
  /\ BeginCall(p, c)
  /\ before' = [before EXCEPT ![p] = Some([db |-> db, report |-> report])]

\* line 47
RefreshStart(p) ==
  /\ StartCall(p, [op |-> "refresh"])
  /\ pc' = [pc EXCEPT ![p] = "r_fetch1"]
  /\ res' = [res EXCEPT ![p] = NoRes]
  /\ scratch' = [scratch EXCEPT ![p] = None]
  /\ UNCHANGED <<db, nextId, clock, report, orphans, lastCommitter, tx>>

\* an HTTPException leaves the handler with conn never closed: the
\* transaction stays open, holding its locks, with nobody to commit it
Abandon(p, response) ==
  /\ res' = [res EXCEPT ![p] = response]
  /\ pc' = [pc EXCEPT ![p] = "idle"]
  /\ orphans' = Leak(NamesOf(tx[p]))
  /\ tx' = [tx EXCEPT ![p] = {}]

\* lines 48-50
FetchCountries(p, feeds) ==
  /\ pc[p] = "r_fetch1"
  /\ \E f \in feeds : country_data' = [country_data EXCEPT ![p] = Some(f)]
  /\ pc' = [pc EXCEPT ![p] = "r_fetch2"]
  /\ UNCHANGED <<db, nextId, clock, report, orphans, nCalls, lastCommitter,
                 call, exchange_rate_data, last_refreshed_at, idx, tx,
                 scratch, res, before>>

\* the failure swallowed: the handler goes on to the rate fetch
FetchCountriesFailsMut(p) ==
  /\ pc[p] = "r_fetch1"
  /\ pc' = [pc EXCEPT ![p] = "r_fetch2"]
  /\ UNCHANGED <<db, nextId, clock, report, orphans, nCalls, lastCommitter,
                 call, country_data, exchange_rate_data, last_refreshed_at,
                 idx, tx, scratch, res, before>>

\* lines 51-52
FetchCountriesFails(p) ==
  /\ pc[p] = "r_fetch1"
  /\ Abandon(p, [status |-> 503, details |-> "Rest Countries"])
  /\ UNCHANGED <<db, nextId, clock, report, nCalls, lastCommitter, call,
                 country_data, exchange_rate_data, last_refreshed_at, idx,
                 scratch, before>>

\* lines 54-56
FetchRates(p, tables) ==
  /\ pc[p] = "r_fetch2"
  /\ \E t \in tables :
       exchange_rate_data' = [exchange_rate_data EXCEPT ![p] = Some(t)]
  /\ pc' = [pc EXCEPT ![p] = "r_stamp"]
  /\ UNCHANGED <<db, nextId, clock, report, orphans, nCalls, lastCommitter,
                 call, country_data, last_refreshed_at, idx, tx, scratch, res,
                 before>>

\* lines 57-58
FetchRatesFails(p) ==
  /\ pc[p] = "r_fetch2"
  /\ Abandon(p, [status |-> 503, details |-> "Exchange Rate API"])
  /\ UNCHANGED <<db, nextId, clock, report, nCalls, lastCommitter, call,
                 country_data, exchange_rate_data, last_refreshed_at, idx,
                 scratch, before>>

\* line 60: the timestamp is kept as the clock reading, its ISO text
\* (isoformat with +00:00 replaced by Z) is not modelled
Stamp(p) ==
  /\ pc[p] = "r_stamp"
  /\ last_refreshed_at' = [last_refreshed_at EXCEPT ![p] = Some(clock)]
  /\ idx' = [idx EXCEPT ![p] = 1]
  /\ pc' = [pc EXCEPT ![p] = "r_loop"]
  /\ UNCHANGED <<db, nextId, clock, report, orphans, nCalls, lastCommitter,
                 call, country_data, exchange_rate_data, tx, scratch, res,
                 before>>

\* lines 70-73
ValidationFails(p) ==
  /\ InLoop(p)
  /\ Validate(CurrentCountry(p)) /= "ok"
  /\ Abandon(p, [status |-> 400, details |-> Validate(CurrentCountry(p))])
  /\ UNCHANGED <<db, nextId, clock, report, nCalls, lastCommitter, call,
                 country_data, exchange_rate_data, last_refreshed_at, idx,
                 scratch, before>>

\* lines 76-102: one iteration.  The INSERT waits while another open
\* transaction holds the name (its row lock or its unique-index entry).
Upsert(p, mults) ==
  /\ InLoop(p)
  /\ Validate(CurrentCountry(p)) = "ok"
  /\ ~LockedByOther(p, CurrentCountry(p).name[1])
  /\ \E mult \in mults :
       LET country == CurrentCountry(p)
           old == ConflictRows(p, country.name[1])
           written == IF old = {}
                      THEN {NewRow(p, nextId, country, mult)}
                      ELSE {UpdatedRow(p, r, country, mult) : r \in old}
       IN /\ nextId' = IF old = {} THEN nextId + 1 ELSE nextId
          /\ IF AutoCommit
             THEN /\ db' = Apply(db, written)
                  /\ tx' = tx
                  /\ lastCommitter' = p
             ELSE /\ tx' = [tx EXCEPT ![p] = Apply(tx[p], written)]
                  /\ UNCHANGED <<db, lastCommitter>>
  /\ idx' = [idx EXCEPT ![p] = idx[p] + 1]
  /\ UNCHANGED <<clock, report, orphans, nCalls, pc, call, country_data,
                 exchange_rate_data, last_refreshed_at, scratch, res, before>>

\* two refreshes each waiting for a name the other holds: PostgreSQL's
\* deadlock detector fails one INSERT, which aborts that transaction and
\* releases its locks; the handler dies with the connection open
WaitsFor(p, q) ==
  /\ InLoop(p)
  /\ Validate(CurrentCountry(p)) = "ok"
  /\ CurrentCountry(p).name[1] \in NamesOf(tx[q])

DeadlockVictim(p) ==
  /\ \E q \in Procs \ {p} : WaitsFor(p, q) /\ WaitsFor(q, p)
  /\ res' = [res EXCEPT ![p] = [status |-> 500, details |-> "deadlock"]]
  /\ pc' = [pc EXCEPT ![p] = "idle"]
  /\ orphans' = Leak({})
  /\ tx' = [tx EXCEPT ![p] = {}]
  /\ UNCHANGED <<db, nextId, clock, report, nCalls, lastCommitter, call,
                 country_data, exchange_rate_data, last_refreshed_at, idx,
                 scratch, before>>

\* the table emptied before the batch is written
CommitMut(p) ==
  /\ pc[p] = "r_loop"
  /\ idx[p] > Len(country_data[p][1])
  /\ db' = tx[p]
  /\ tx' = [tx EXCEPT ![p] = {}]
  /\ lastCommitter' = p
  /\ before' = Rebase(p, db', report)
  /\ pc' = [pc EXCEPT ![p] = "r_count"]
  /\ UNCHANGED <<nextId, clock, report, orphans, nCalls, call, country_data,
                 exchange_rate_data, last_refreshed_at, idx, scratch, res>>

\* line 105
Commit(p) ==
  /\ pc[p] = "r_loop"
  /\ idx[p] > Len(country_data[p][1])
  /\ db' = Apply(db, tx[p])
  /\ tx' = [tx EXCEPT ![p] = {}]
  /\ lastCommitter' = p
  /\ before' = Rebase(p, db', report)
  /\ pc' = [pc EXCEPT ![p] = "r_count"]
  /\ UNCHANGED <<nextId, clock, report, orphans, nCalls, call, country_data,
                 exchange_rate_data, last_refreshed_at, idx, scratch, res>>


\* ---------------------------------------------------------- SQL ordering
Perms(S) ==
  {f \in [1..Cardinality(S) -> S] :
     \A i, j \in 1..Cardinality(S) : i /= j => f[i] /= f[j]}

\* PostgreSQL's order of a nullable column: NULL is larger than any value,
\* so ASC puts NULLs last and DESC puts them first
GdpLeq(a, b) == b = None \/ (a /= None /\ a[1] <= b[1])

OrderByGdpAsc(S) ==
  {f \in Perms(S) : \A i, j \in 1..Cardinality(S) :
     i < j => GdpLeq(f[i].estimated_gdp, f[j].estimated_gdp)}

OrderByGdpDesc(S) ==
  {f \in Perms(S) : \A i, j \in 1..Cardinality(S) :
     i < j => GdpLeq(f[j].estimated_gdp, f[i].estimated_gdp)}

Min(a, b) == IF a <= b THEN a ELSE b

\* LIMIT 5 (line 120)
TopLimit == 5

TopGdpMut(table) ==
  LET S == {r \in table : r.estimated_gdp /= None} IN
  {[i \in 1..Min(TopLimit, Cardinality(S)) |-> <<f[i].name, f[i].estimated_gdp[1]>>] :
     f \in OrderByGdpAsc(S)}

\* lines 116-122: name and gdp of the first five rows with a gdp
TopGdp(table) ==
  LET S == {r \in table : r.estimated_gdp /= None} IN
  {[i \in 1..Min(TopLimit, Cardinality(S)) |-> <<f[i].name, f[i].estimated_gdp[1]>>] :
     f \in OrderByGdpDesc(S)}

\* ------------------------------------------------- refresh: the report
\* lines 108-109
ReportCount(p) ==
  /\ pc[p] = "r_count"
  /\ scratch' = [scratch EXCEPT ![p] =
                   Some([total_countries |-> Cardinality(Visible(p))])]
  /\ pc' = [pc EXCEPT ![p] = "r_top"]
  /\ UNCHANGED <<db, nextId, clock, report, orphans, nCalls, lastCommitter,
                 call, country_data, exchange_rate_data, last_refreshed_at,
                 idx, tx, res, before>>

\* lines 116-122
ReportTop(p) ==
  /\ pc[p] = "r_top"
  /\ \E top \in TopGdp(Visible(p)) :
       scratch' = [scratch EXCEPT ![p] =
                     Some([total_countries |-> scratch[p][1].total_countries,
                           top_gdp |-> top])]
  /\ pc' = [pc EXCEPT ![p] = "r_save"]
  /\ UNCHANGED <<db, nextId, clock, report, orphans, nCalls, lastCommitter,
                 call, country_data, exchange_rate_data, last_refreshed_at,
                 idx, tx, res, before>>

\* lines 111-138: the image is drawn from the locals and overwrites the
\* cached file; round(gdp, 2) of the integral gdps modelled is the gdp
ReportSave(p) ==
  /\ pc[p] = "r_save"
  /\ report' = Some([total_countries |-> scratch[p][1].total_countries,
                     top_gdp |-> scratch[p][1].top_gdp,
                     last_refreshed_at |-> last_refreshed_at[p][1]])
  /\ res' = [res EXCEPT ![p] = [status |-> 200]]
  /\ pc' = [pc EXCEPT ![p] = "idle"]
  /\ before' = Rebase(p, db, report')
  /\ UNCHANGED <<db, nextId, clock, orphans, nCalls, lastCommitter, call,
                 country_data, exchange_rate_data, last_refreshed_at, idx, tx,
                 scratch>>

\* lines 132-134 raising (the cache directory or file cannot be written)
ReportSaveFails(p) ==
  /\ pc[p] = "r_save"
  /\ Abandon(p, [status |-> 500, details |-> "report"])
  /\ UNCHANGED <<db, nextId, clock, report, nCalls, lastCommitter, call,
                 country_data, exchange_rate_data, last_refreshed_at, idx,
                 scratch, before>>

\* ------------------------------------------------------------- GET /countries
sGdpDesc == <<"g", "d", "p", "_", "d", "e", "s", "c">>
sGdpAsc == <<"g", "d", "p", "_", "a", "s", "c">>

\* the query strings tried: absent, and values in either letter case
QueryArg(region, currency, sort) ==
  [region |-> region, currency |-> currency, sort |-> sort]
ConcurrentQueryArgs ==
  { QueryArg(None, None, None),
    QueryArg(None, None, Some(sGdpDesc)),
    QueryArg(Some(<<"e", "u">>), None, Some(<<"G", "D", "P", "_", "a", "s", "c">>)),
    QueryArg(Some(<<"a", "s">>), Some(<<"y">>), None),
    QueryArg(None, Some(<<"x">>), Some(<<"u", "p">>)) }

\* region values holding the quote character, written as their SQL lexemes:
\* a lone quote, and a quote followed by two more statements and a comment
sQuote == <<"'">>
sDeleteAll ==
  <<"'", ";", "DELETE FROM countries", ";", "COMMIT", ";", "--">>
QueryArgs ==
  ConcurrentQueryArgs
    \cup {QueryArg(Some(sQuote), None, None),
          QueryArg(Some(sDeleteAll), None, None)}
NameArgs == {sAb, sab, <<"a", "_">>}

\* lines 152-155: the WHERE clause
Matches(r, region, currency) ==
  /\ Truthy(region) => r.region /= None /\ ILike(r.region[1], region[1])
  /\ Truthy(currency) =>
       r.currency_code /= None /\ ILike(r.currency_code[1], currency[1])

QueryResultsMut(table, region, currency, sort) ==
  LET S == {r \in table : Matches(r, region, currency)
                            /\ r.estimated_gdp /= None} IN
  IF Truthy(sort) /\ Lower(sort[1]) = sGdpDesc THEN OrderByGdpDesc(S)
  ELSE IF Truthy(sort) /\ Lower(sort[1]) = sGdpAsc THEN OrderByGdpAsc(S)
  ELSE Perms(S)

\* lines 150-166: the result lists cur.fetchall() may return
QueryResults(table, region, currency, sort) ==
  LET S == {r \in table : Matches(r, region, currency)} IN
  IF Truthy(sort) /\ Lower(sort[1]) = sGdpDesc THEN OrderByGdpDesc(S)
  ELSE IF Truthy(sort) /\ Lower(sort[1]) = sGdpAsc THEN OrderByGdpAsc(S)
  ELSE Perms(S)

\* lines 151-161: the statement text, as its lexemes; the values are pasted
\* between two quote characters as they came
SqlText(a) ==
  LET Pasted(column, value) ==
        IF Truthy(value) THEN <<column, "'">> \o value[1] \o <<"'">>
        ELSE <<>>
  IN  <<"SELECT * FROM countries WHERE 1=1">>
      \o Pasted("AND region ILIKE", a.region)
      \o Pasted("AND currency_code ILIKE", a.currency)
      \o (IF Truthy(a.sort) /\ Lower(a.sort[1]) = sGdpDesc
          THEN <<"ORDER BY estimated_gdp DESC">>
          ELSE IF Truthy(a.sort) /\ Lower(a.sort[1]) = sGdpAsc
               THEN <<"ORDER BY estimated_gdp ASC">>
               ELSE <<>>)
      \o <<";">>

\* line 162, cur.execute(query): how PostgreSQL splits the text it is sent.
\* A quote opens a literal, inside a literal two quotes are one quote
\* character and a single quote closes it; outside literals ; ends a
\* statement and -- starts a comment that runs to the end of the line.  A
\* literal still open at the end is a syntax error, and then no statement
\* of the text is run.
RECURSIVE Statements(_, _, _, _)
Statements(text, inLiteral, current, done) ==
  IF text = <<>>
  THEN [error |-> inLiteral,
        stmts |-> IF current = <<>> THEN done ELSE Append(done, current)]
  ELSE IF inLiteral
       THEN IF Head(text) /= "'"
            THEN Statements(Tail(text), TRUE, current, done)
            ELSE IF Len(text) >= 2 /\ text[2] = "'"
                 THEN Statements(Tail(Tail(text)), TRUE, current, done)
                 ELSE Statements(Tail(text), FALSE, current, done)
       ELSE IF Head(text) = "'"
            THEN Statements(Tail(text), TRUE, Append(current, "literal"), done)
            ELSE IF Head(text) = ";"
                 THEN Statements(Tail(text), FALSE, <<>>,
                                 IF current = <<>> THEN done
                                 ELSE Append(done, current))
                 ELSE IF Head(text) = "--"
                      THEN Statements(<<>>, FALSE, current, done)
                      ELSE Statements(Tail(text), FALSE,
                                      Append(current, Head(text)), done)

\* the committed table after the statements that follow the SELECT have run
\* in the request's transaction
RECURSIVE Run(_, _, _)
Run(stmts, committed, working) ==
  IF stmts = <<>> THEN committed
  ELSE IF Head(stmts) = <<"DELETE FROM countries">>
       THEN Run(Tail(stmts), committed, {})
       ELSE IF Head(stmts) = <<"COMMIT">>
            THEN Run(Tail(stmts), working, working)
            ELSE Run(Tail(stmts), committed, working)

\* what the server makes of the text of each request tried
Sent == [a \in QueryArgs |-> Statements(SqlText(a), FALSE, <<>>, <<>>)]

\* lines 147-187
GetCountriesWithFiltering(p, args) ==
  \E a \in args :
    LET c == [op |-> "query", region |-> a.region,
              currency |-> a.currency, sort |-> a.sort]
        sql == Sent[a]
    IN
    IF sql.error
    THEN \* psycopg2 raises at line 162; nothing was run
         /\ StartCall(p, c)
         /\ Abandon(p, [status |-> 500, details |-> "syntax error"])
         /\ scratch' = [scratch EXCEPT ![p] = None]
         /\ UNCHANGED <<db, nextId, clock, report, lastCommitter>>
    ELSE IF Len(sql.stmts) > 1
    THEN \* every statement runs; the last one returned no rows, so
         \* cur.fetchall() at line 163 raises
         /\ BeginCall(p, c)
         /\ \A n \in NamesOf(db) : ~LockedByOther(p, n)
         /\ db' = Run(Tail(sql.stmts), db, Visible(p))
         /\ lastCommitter' = p
         /\ before' = [q \in Procs |->
                         IF q = p THEN Some([db |-> db, report |-> report])
                         ELSE IF before[q] = None THEN None
                         ELSE Some([db |-> db', report |-> report])]
         /\ Abandon(p, [status |-> 500, details |-> "no results to fetch"])
         /\ scratch' = [scratch EXCEPT ![p] = None]
         /\ UNCHANGED <<nextId, clock, report>>
    ELSE /\ StartCall(p, c)
         /\ \E results \in
                QueryResults(Visible(p), a.region, a.currency, a.sort) :
              IF results = <<>>
              THEN Abandon(p, [status |-> 404, details |-> "Country not found"])
              ELSE /\ res' = [res EXCEPT ![p] =
                                [status |-> 200, data |-> results]]
                   /\ UNCHANGED <<pc, orphans, tx>>
         /\ scratch' = [scratch EXCEPT ![p] = None]
         /\ UNCHANGED <<db, nextId, clock, report, lastCommitter>>

\* lines 189-210
GetCountryByName(p) ==
  \E name \in NameArgs :
    /\ StartCall(p, [op |-> "get", name |-> name])
    /\ LET found == {r \in Visible(p) : ILike(r.name, name)} IN
         IF found = {}
         THEN Abandon(p, [status |-> 404, details |-> "Country not found"])
         ELSE /\ \E r \in found :
                   res' = [res EXCEPT ![p] = [status |-> 200, row |-> r]]
              /\ UNCHANGED <<pc, orphans, tx>>
    /\ scratch' = [scratch EXCEPT ![p] = None]
    /\ UNCHANGED <<db, nextId, clock, report, lastCommitter>>

\* ------------------------------------------------- DELETE /countries/{name}
\* lines 214-218
DeleteSelect(p) ==
  \E name \in NameArgs :
    /\ StartCall(p, [op |-> "delete", name |-> name])
    /\ IF {r \in Visible(p) : r.name = name} = {}
       THEN Abandon(p, [status |-> 404, details |-> "Country not found"])
       ELSE /\ pc' = [pc EXCEPT ![p] = "d_delete"]
            /\ res' = [res EXCEPT ![p] = NoRes]
            /\ UNCHANGED <<orphans, tx>>
    /\ scratch' = [scratch EXCEPT ![p] = None]
    /\ UNCHANGED <<db, nextId, clock, report, lastCommitter>>

\* lines 219-223: the DELETE waits for a row another transaction has
\* rewritten, then removes the rows of that name that are committed by then
DeleteRow(p) ==
  /\ pc[p] = "d_delete"
  /\ ~(call[p].name \in NamesOf(db) /\ LockedByOther(p, call[p].name))
  /\ db' = {r \in db : r.name /= call[p].name}
  /\ lastCommitter' = p
  /\ before' = Rebase(p, db', report)
  /\ res' = [res EXCEPT ![p] = [status |-> 200]]
  /\ pc' = [pc EXCEPT ![p] = "idle"]
  /\ UNCHANGED <<nextId, clock, report, orphans, nCalls, call, country_data,
                 exchange_rate_data, last_refreshed_at, idx, tx, scratch>>

\* ---------------------------------------------------------------- GET /status
\* lines 227-229
StatusCount(p) ==
  /\ StartCall(p, [op |-> "status"])
  /\ scratch' = [scratch EXCEPT ![p] =
                   Some([country_count |-> Cardinality(Visible(p))])]
  /\ pc' = [pc EXCEPT ![p] = "s_max"]
  /\ res' = [res EXCEPT ![p] = NoRes]
  /\ UNCHANGED <<db, nextId, clock, report, orphans, lastCommitter, tx>>

\* the timestamp of the cached report's batch in place of the rows' maximum
MaxStampMut(table) ==
  IF report = None THEN None ELSE Some(report[1].last_refreshed_at)

\* SELECT MAX(last_refreshed_at): NULL over no rows
MaxStamp(table) ==
  IF table = {} THEN None
  ELSE Some(CHOOSE t \in {r.last_refreshed_at : r \in table} :
              \A r \in table : r.last_refreshed_at <= t)

\* lines 230-237
StatusMax(p) ==
  /\ pc[p] = "s_max"
  /\ res' = [res EXCEPT ![p] =
               [status |-> 200,
                total_countries |-> scratch[p][1].country_count,
                last_refreshed_at |-> MaxStamp(Visible(p))]]
  /\ pc' = [pc EXCEPT ![p] = "idle"]
  /\ UNCHANGED <<db, nextId, clock, report, orphans, nCalls, lastCommitter,
                 call, country_data, exchange_rate_data, last_refreshed_at,
                 idx, tx, scratch, before>>

\* --------------------------------------------------------- GET /countries/image
\* lines 140-145
ServeCountryImage(p) ==
  /\ StartCall(p, [op |-> "image"])
  /\ res' = [res EXCEPT ![p] =
               IF report = None
               THEN [status |-> 404, details |-> "Summary image not found"]
               ELSE [status |-> 200, image |-> report[1]]]
  /\ scratch' = [scratch EXCEPT ![p] = None]
  /\ UNCHANGED <<db, nextId, clock, report, orphans, lastCommitter, pc, tx>>

\* ------------------------------------------------------------ environment
\* time passes
Tick ==
  /\ clock < MaxClock
  /\ clock' = clock + 1
  /\ UNCHANGED <<db, nextId, report, orphans, nCalls, lastCommitter, pc, call,
                 country_data, exchange_rate_data, last_refreshed_at, idx, tx,
                 scratch, res, before>>

\* an unreferenced connection object is finalized: the server rolls its
\* transaction back and its locks go
CollectConnection ==
  /\ \E S \in DOMAIN orphans : orphans' = Unleak(S)
  /\ UNCHANGED <<db, nextId, clock, report, nCalls, lastCommitter, pc, call,
                 country_data, exchange_rate_data, last_refreshed_at, idx, tx,
                 scratch, res, before>>

\* the inputs of the concurrent runs: both orders of one list, a list that
\* fails validation after a valid record, a list with one name twice
ConcurrentFeeds ==
  { <<cAb, cab>>, <<cab, cAb>>, <<cAb, cNegPop>>, <<cAb, cAbNew>> }
ConcurrentTables == { [rates |-> Some((sX :> 2) @@ (sY :> 1) @@ (sW :> 0))] }
ConcurrentMultipliers == {1000}

Next ==
  \/ \E p \in Procs :
       \/ RefreshStart(p)
       \/ FetchCountries(p, ConcurrentFeeds)
       \/ FetchCountriesFails(p)
       \/ FetchRates(p, ConcurrentTables)
       \/ FetchRatesFails(p)
       \/ Stamp(p)
       \/ ValidationFails(p)
       \/ Upsert(p, ConcurrentMultipliers)
       \/ DeadlockVictim(p)
       \/ Commit(p)
       \/ ReportCount(p)
       \/ ReportTop(p)
       \/ ReportSave(p)
       \/ ReportSaveFails(p)
       \/ GetCountriesWithFiltering(p, ConcurrentQueryArgs)
       \/ GetCountryByName(p)
       \/ DeleteSelect(p)
       \/ DeleteRow(p)
       \/ StatusCount(p)
       \/ StatusMax(p)
       \/ ServeCountryImage(p)
  \/ Tick
  \/ CollectConnection

\* two request threads
Spec == Init /\ [][Next]_vars

\* one request thread, every modelled input
NextSeq ==
  \/ RefreshStart(1)
  \/ FetchCountries(1, Feeds)
  \/ FetchCountriesFails(1)
  \/ FetchRates(1, RateTables)
  \/ FetchRatesFails(1)
  \/ Stamp(1)
  \/ ValidationFails(1)
  \/ Upsert(1, Multipliers)
  \/ Commit(1)
  \/ ReportCount(1)
  \/ ReportTop(1)
  \/ ReportSave(1)
  \/ ReportSaveFails(1)
  \/ GetCountriesWithFiltering(1, QueryArgs)
  \/ GetCountryByName(1)
  \/ DeleteSelect(1)
  \/ DeleteRow(1)
  \/ StatusCount(1)
  \/ StatusMax(1)
  \/ ServeCountryImage(1)
  \/ Tick
  \/ CollectConnection

SpecSeq == Init /\ [][NextSeq]_vars

\* one request thread refreshing from lists of seven countries, so that the
\* report's LIMIT 5 cuts the list
TopFeeds ==
  { <<k1, k2, k3, k4, k5, k6, k7>>, <<k7, k6NoRate, k5, k4, k3, k2, k1>>,
    <<k7, k2>> }

NextTop ==
  \/ RefreshStart(1)
  \/ FetchCountries(1, TopFeeds)
  \/ FetchRates(1, ConcurrentTables)
  \/ Stamp(1)
  \/ Upsert(1, ConcurrentMultipliers)
  \/ Commit(1)
  \/ ReportCount(1)
  \/ ReportTop(1)
  \/ ReportSave(1)
  \/ ServeCountryImage(1)
  \/ Tick

SpecTop == Init /\ [][NextTop]_vars


\* ================================================================ claims
IsRefresh(p) == call[p].op = "refresh"
Batch(p) == country_data[p][1]
BatchNames(p) == {Batch(p)[i].name[1] : i \in 1..Len(Batch(p))}
Untouched(p) == before[p] = Some([db |-> db, report |-> report])
PastCommit(p) == pc[p] \in {"r_count", "r_top", "r_save"}
RefreshCommitted(p) ==
  /\ IsRefresh(p)
  /\ PastCommit(p) \/ (pc[p] = "idle" /\ res[p].status = 200)

\* a record the spec calls invalid (4.3 step 4)
Invalid(country) ==
  \/ country.name = None
  \/ country.name[1] = <<>>
  \/ country.population = None
  \/ country.population[1] < 0
HasInvalid(p) == \E i \in 1..Len(Batch(p)) : Invalid(Batch(p)[i])

\* C1: a refresh whose metadata list holds an invalid record, at any
\* position, never commits and never regenerates the report: it ends with
\* 400 (or 503 when the rate fetch failed first), and the committed store
\* and the cached report are what they would be without that refresh. A 400
\* names the field of the first invalid record.
C1_InvalidRecordAbortsRefresh ==
  \A p \in Procs :
    /\ (IsRefresh(p) /\ country_data[p] /= None /\ HasInvalid(p)) =>
         /\ ~PastCommit(p)
         /\ Untouched(p)
         /\ pc[p] = "idle" => res[p].status \in {400, 503}
    /\ res[p].status = 400 =>
         /\ IsRefresh(p) /\ pc[p] = "idle" /\ tx[p] = {}
         /\ Untouched(p)
         /\ Invalid(Batch(p)[idx[p]])
         /\ \A i \in 1..(idx[p] - 1) : ~Invalid(Batch(p)[i])
         /\ res[p].details = "name" <=>
              (Batch(p)[idx[p]].name = None \/ Batch(p)[idx[p]].name[1] = <<>>)

\* C1 witness: a 400 for a negative population in second place, the valid
\* first record upserted in the transaction left open, the store non-empty
C1_Witness ==
  \E p \in Procs :
    /\ res[p].status = 400 /\ idx[p] = 2
    /\ Batch(p)[2].population = Some(-5)
    /\ \E S \in DOMAIN orphans : Batch(p)[1].name[1] \in S
    /\ db /= {} /\ report /= None

\* the rows in the answer r to request c (a query or a lookup by name)
RowsSeen(c, r) ==
  IF r.status /= 200 THEN {}
  ELSE IF c.op = "query" THEN {r.data[i] : i \in 1..Len(r.data)}
  ELSE IF c.op = "get" THEN {r.row}
  ELSE {}

\* thread q is answered by this step
Answered(q) == res'[q] /= res[q] /\ res'[q].status /= 0

\* the rows seen are the batch's rows as they were without p's refresh
SeenBefore(rows, p) ==
  \A r \in rows : r.name \in BatchNames(p) => r \in before[p][1].db
\* or they all carry the timestamp of p's refresh
SeenAfter(rows, p) ==
  \A r \in rows : r.name \in BatchNames(p) =>
    r.last_refreshed_at = last_refreshed_at[p][1]

\* C2: every answer given to a query or a lookup while a refresh is in its
\* upsert loop shows the rows of that refresh's batch either all as they
\* were without the refresh or all with its timestamp, and a status answer
\* given meanwhile reports the latest timestamp the store held without it
C2_ReadersSeeWholeBatches ==
  [][\A q \in Procs : Answered(q) =>
       \A p \in Procs \ {q} : pc[p] = "r_loop" =>
         /\ \/ SeenBefore(RowsSeen(call'[q], res'[q]), p)
            \/ SeenAfter(RowsSeen(call'[q], res'[q]), p)
         /\ call'[q].op = "status" =>
              res'[q].last_refreshed_at = MaxStamp(before[p][1].db)]_vars

\* C2 witness: a query answered while another thread's refresh held an
\* uncommitted new version of a row the answer shows in its old version
C2_Witness ==
  \E p, q \in Procs :
    /\ p /= q /\ pc[p] = "r_loop" /\ idx[p] <= Len(Batch(p))
    /\ call[q].op = "query" /\ p \in call[q].during /\ res[q].status = 200
    /\ \E r \in RowsSeen(call[q], res[q]), w \in tx[p] :
         /\ r.name = w.name /\ r.id = w.id
         /\ r.last_refreshed_at /= w.last_refreshed_at
         /\ r \in db

\* C3: the batch of the refresh that committed last carries that refresh's
\* timestamp on every row, and when two refreshes of the same names have
\* both committed the store holds no mix of their two timestamps
C3_RefreshesSerialized ==
  /\ \A p \in Procs :
       (RefreshCommitted(p) /\ lastCommitter = p) =>
         \A n \in BatchNames(p) :
           /\ \E r \in db : r.name = n
           /\ \A r \in db : r.name = n =>
                r.last_refreshed_at = last_refreshed_at[p][1]
  /\ \A p, q \in Procs :
       (/\ p /= q /\ RefreshCommitted(p) /\ RefreshCommitted(q)
        /\ BatchNames(p) = BatchNames(q)
        /\ last_refreshed_at[p] /= last_refreshed_at[q]) =>
         ~\E r1, r2 \in db :
            /\ r1.name \in BatchNames(p) /\ r2.name \in BatchNames(p)
            /\ r1.last_refreshed_at = last_refreshed_at[p][1]
            /\ r2.last_refreshed_at = last_refreshed_at[q][1]

\* C3 witness: two refreshes of the same two names have both committed, the
\* second began while the first had uncommitted rows, their timestamps differ
C3_Witness ==
  \E p, q \in Procs :
    /\ p /= q /\ RefreshCommitted(p) /\ RefreshCommitted(q)
    /\ p \in call[q].during
    /\ BatchNames(p) = BatchNames(q) /\ Cardinality(BatchNames(p)) = 2
    /\ last_refreshed_at[p] /= last_refreshed_at[q]

\* C4: the timestamp of a refresh is set once, after both fetches and with
\* no record processed yet, and every row the refresh writes carries it;
\* when the loop ends every name of the list has such a row ready to commit
C4_OneTimestampPerBatch ==
  \A p \in Procs : IsRefresh(p) =>
    /\ last_refreshed_at[p] /= None =>
         country_data[p] /= None /\ exchange_rate_data[p] /= None
    /\ pc[p] \in {"r_fetch1", "r_fetch2", "r_stamp"} =>
         last_refreshed_at[p] = None /\ idx[p] = 0 /\ tx[p] = {}
    /\ \A r \in tx[p] : r.last_refreshed_at = last_refreshed_at[p][1]
    /\ (pc[p] = "r_loop" /\ idx[p] > Len(Batch(p))) =>
         NamesOf(tx[p]) = BatchNames(p)

\* C4 witness: a loop that has ended with two rows written, the clock
\* having moved on since the timestamp was taken
C4_Witness ==
  \E p \in Procs :
    /\ pc[p] = "r_loop" /\ idx[p] > Len(Batch(p))
    /\ Cardinality(tx[p]) = 2
    /\ clock /= last_refreshed_at[p][1]

\* C5: a 503 names the source that failed and comes from a refresh that has
\* taken no timestamp, processed no record and written nothing, the store
\* and the report being what they would be without it; rates are fetched
\* only once the metadata is there
C5_SourceFailureBeforeAnyWrite ==
  \A p \in Procs :
    /\ res[p].status = 503 =>
         /\ IsRefresh(p) /\ pc[p] = "idle"
         /\ last_refreshed_at[p] = None /\ idx[p] = 0 /\ tx[p] = {}
         /\ Untouched(p)
         /\ exchange_rate_data[p] = None
         /\ res[p].details = "Rest Countries" <=> country_data[p] = None
         /\ res[p].details = "Exchange Rate API" <=> country_data[p] /= None
    /\ exchange_rate_data[p] /= None => country_data[p] /= None
    /\ pc[p] \in {"r_stamp", "r_loop", "r_count", "r_top", "r_save"} =>
         country_data[p] /= None /\ exchange_rate_data[p] /= None

\* C5 witness: the rate fetch failed after the metadata fetch succeeded,
\* over a store that holds rows
C5_Witness ==
  \E p \in Procs :
    /\ res[p].status = 503 /\ res[p].details = "Exchange Rate API"
    /\ country_data[p] /= None /\ db /= {} /\ report /= None


\* currencies[0].code of a record, as the spec reads it (4.3 step 5)
FirstCode(country) ==
  IF country.currencies = None \/ country.currencies[1] = <<>>
  THEN None
  ELSE country.currencies[1][1].code
InRates(p, code) ==
  /\ exchange_rate_data[p][1].rates /= None
  /\ code \in DOMAIN exchange_rate_data[p][1].rates[1]
\* the records processed so far that no later processed record overwrote
Processed(p) ==
  {i \in 1..(idx[p] - 1) :
     \A j \in (i + 1)..(idx[p] - 1) : Batch(p)[j].name /= Batch(p)[i].name}

\* C6 as stated: a row written by a refresh has a gdp exactly when its
\* currency code is non-null and a key of the fetched rate table
C6_GdpIffCodeInRates ==
  \A p \in Procs : \A r \in tx[p] :
    r.estimated_gdp /= None <=>
      (r.currency_code /= None /\ InRates(p, r.currency_code[1]))

\* C6 amended: a row written by a refresh has a gdp exactly when its
\* currency code is non-null, non-empty, a key of the fetched rate table and
\* the rate there is not 0; every record processed is in the transaction
\* with its first currency code, and a code the table lacks gives
\* exchange_rate null and estimated_gdp null
C6_GdpIffNonZeroRate ==
  \A p \in Procs : pc[p] = "r_loop" =>
    /\ \A r \in tx[p] :
         r.estimated_gdp /= None <=>
           /\ r.currency_code /= None /\ r.currency_code[1] /= <<>>
           /\ InRates(p, r.currency_code[1])
           /\ exchange_rate_data[p][1].rates[1][r.currency_code[1]] /= 0
    /\ \A i \in Processed(p) :
         \E r \in tx[p] :
           /\ r.name = Batch(p)[i].name[1]
           /\ r.currency_code = FirstCode(Batch(p)[i])
           /\ (r.currency_code /= None /\ ~InRates(p, r.currency_code[1])) =>
                r.exchange_rate = None /\ r.estimated_gdp = None

\* C6 witness: the fetched table has rates but none for code Q, and the
\* country with that code is committed, code kept, rate and gdp null
C6_Witness ==
  \E p \in Procs : \E r \in db :
    /\ PastCommit(p) /\ lastCommitter = p
    /\ exchange_rate_data[p][1].rates /= None
    /\ r.name = sZu /\ r.last_refreshed_at = last_refreshed_at[p][1]
    /\ r.currency_code = Some(sQ)
    /\ r.exchange_rate = None /\ r.estimated_gdp = None

\* C7 as stated: a delete that succeeds removes exactly one row, and a
\* lookup of the deleted name, made with no commit since that delete,
\* answers 404
C7_DeleteThenNotFound ==
  [][\A p \in Procs :
       /\ (pc[p] = "d_delete" /\ pc'[p] = "idle" /\ res'[p].status = 200) =>
            Cardinality(db') = Cardinality(db) - 1
       /\ \A q \in Procs :
            (/\ call[p].op /= "get" /\ call'[p].op = "get"
             /\ call[q].op = "delete" /\ pc[q] = "idle" /\ res[q].status = 200
             /\ lastCommitter = q
             /\ call'[p].name = call[q].name) =>
              res'[p].status = 404]_vars

\* C8: no step changes the id of a name that stays in the store, and the
\* commit of a refresh removes no name and adds only names of its list (so
\* none when they are all stored already)
C8_IdsStable ==
  [][/\ \A r \in db, r2 \in db' : r.name = r2.name => r.id = r2.id
     /\ \A p \in Procs : (pc[p] = "r_loop" /\ pc'[p] = "r_count") =>
          /\ NamesOf(db) \subseteq NamesOf(db')
          /\ NamesOf(db') \subseteq NamesOf(db) \cup BatchNames(p)]_vars

\* C8 witness: a second refresh has just committed the two names a first
\* one inserted and reported: only ids 1 and 2 were ever given out, and
\* both rows now carry the new timestamp
C8_Witness ==
  \E p \in Procs :
    /\ pc[p] = "r_count" /\ report /= None
    /\ Cardinality(db) = 2 /\ NamesOf(db) = BatchNames(p) /\ nextId = 3
    /\ report[1].total_countries = 2
    /\ report[1].last_refreshed_at /= last_refreshed_at[p][1]
    /\ \A r \in db : r.last_refreshed_at = last_refreshed_at[p][1]

\* C9: no two committed rows share a name, and no committed row has a
\* negative population
C9_NameUniquePopulationNonNegative ==
  /\ \A r1, r2 \in db : r1.name = r2.name => r1 = r2
  /\ \A r \in db : r.population >= 0

\* C9 witness: a refresh whose list names one country twice has committed:
\* the store holds one row of that name, with the second record's values
C9_Witness ==
  \E p \in Procs :
    /\ RefreshCommitted(p) /\ lastCommitter = p
    /\ Batch(p) = <<cAb, cAbNew>>
    /\ \E r \in db : r.name = sAb /\ r.population = 2
                      /\ r.currency_code = Some(sW)
    /\ Cardinality({r \in db : r.name = sAb}) = 1

\* C10 as stated: in the answer to sort=gdp_desc no row without a gdp comes
\* before a row with one, and gdps do not increase along the answer
C10_GdpDescNullsLast ==
  \A p \in Procs :
    (/\ call[p].op = "query" /\ res[p].status = 200
     /\ call[p].sort /= None /\ Lower(call[p].sort[1]) = sGdpDesc) =>
      \A i, j \in 1..Len(res[p].data) : i < j =>
        LET a == res[p].data[i].estimated_gdp
            b == res[p].data[j].estimated_gdp
        IN /\ ~(a = None /\ b /= None)
           /\ (a /= None /\ b /= None) => a[1] >= b[1]


\* ------------------------------------------------------------------ C11
ReportOf(p) == report[1]
WithGdp == {r \in db : r.estimated_gdp /= None}
Listed(top) == {top[i][1] : i \in 1..Len(top)}

\* C11: the report saved by a successful refresh shows the number of rows
\* of the store as its total and lists min(5, k) entries, k being the number
\* of rows with an estimated_gdp: each entry is the name and gdp of one such
\* row, no row twice, the gdps descending, and no row left out has a larger
\* gdp than a listed one; a row with a null gdp is never listed.
C11_ReportTotalAndTopFive ==
  \A p \in Procs :
    (IsRefresh(p) /\ pc[p] = "idle" /\ res[p].status = 200) =>
      /\ report /= None
      /\ ReportOf(p).total_countries = Cardinality(db)
      /\ LET top == ReportOf(p).top_gdp
             k == Cardinality(WithGdp)
         IN /\ Len(top) = (IF k < 5 THEN k ELSE 5)
            /\ \A i \in 1..Len(top) :
                 \E r \in WithGdp :
                   r.name = top[i][1] /\ r.estimated_gdp[1] = top[i][2]
            /\ \A i, j \in 1..Len(top) :
                 /\ i /= j => top[i][1] /= top[j][1]
                 /\ i < j => top[i][2] >= top[j][2]
            /\ \A r \in WithGdp : \A i \in 1..Len(top) :
                 r.name \notin Listed(top) => r.estimated_gdp[1] <= top[i][2]

\* seven rows, six with a gdp: five are listed, and the one left out ties
\* with the last one listed
C11_Witness ==
  /\ IsRefresh(1) /\ pc[1] = "idle" /\ res[1].status = 200
  /\ Cardinality(db) = 7 /\ Cardinality(WithGdp) = 6
  /\ report /= None /\ report[1].total_countries = 7
  /\ Len(report[1].top_gdp) = 5
  /\ \E r \in WithGdp :
       /\ r.name \notin Listed(report[1].top_gdp)
       /\ r.estimated_gdp[1] = report[1].top_gdp[5][2]

\* ------------------------------------------------------------------ C12
\* C12: the step that ends a refresh after its commit, whether the report
\* was written or writing it failed, leaves the committed rows in the store
\* and answers the caller with a success (possibly degraded), never with an
\* error status.
C12_ReportFailureNotAFailure ==
  [][\A p \in Procs :
       (pc[p] = "r_save" /\ pc'[p] = "idle") =>
         /\ db' = db
         /\ \A i \in 1..Len(Batch(p)) :
              \E r \in db' : r.name = Batch(p)[i].name[1]
         /\ res'[p].status < 400]_vars

\* ------------------------------------------------------------------ C13
RefreshRunning(p) == IsRefresh(p) /\ pc[p] /= "idle"
\* q's refresh succeeded and no commit came after its own
LatestRefresh(q) ==
  /\ IsRefresh(q) /\ pc[q] = "idle" /\ res[q].status = 200
  /\ lastCommitter = q

\* C13: whenever no refresh is in progress, the cached report is the one of
\* the most recently committed successful refresh: its footer is that
\* refresh's batch timestamp, and its total and top-five lines are those of
\* the store state that refresh committed (here still the current state,
\* nothing having been committed since).
C13_CachedReportOfLatestRefresh ==
  (\A p \in Procs : ~RefreshRunning(p)) =>
    \A q \in Procs :
      LatestRefresh(q) =>
        /\ report /= None
        /\ report[1].last_refreshed_at = last_refreshed_at[q][1]
        /\ report[1].total_countries = Cardinality(db)
        /\ \A i \in 1..Len(report[1].top_gdp) :
             \E r \in WithGdp :
               r.name = report[1].top_gdp[i][1]
               /\ r.estimated_gdp[1] = report[1].top_gdp[i][2]
        /\ Len(report[1].top_gdp) =
             (IF Cardinality(WithGdp) < 5 THEN Cardinality(WithGdp) ELSE 5)

\* ------------------------------------------------------------------ C14
\* a query with no region, currency or sort parameter
Unfiltered(c) ==
  c.op = "query" /\ c.region = None /\ c.currency = None /\ c.sort = None
RowsOf(list) == {list[i] : i \in 1..Len(list)}

\* C14: on one store state, a query without parameters returns as many rows
\* as status reports: the query answers with every stored row once (NotFound
\* standing for no rows when the store is empty), and status reports the
\* number of stored rows.  With one request thread the store is still the
\* one the answer was computed on.
C14_UnfilteredQueryCountIsStatusCount ==
  \A p \in Procs :
    pc[p] = "idle" =>
      /\ (Unfiltered(call[p]) /\ res[p].status = 200) =>
           Len(res[p].data) = Cardinality(db) /\ RowsOf(res[p].data) = db
      /\ (Unfiltered(call[p]) /\ res[p].status /= 200) =>
           res[p].status = 404 /\ Cardinality(db) = 0
      /\ (call[p].op = "status" /\ res[p].status /= 0) =>
           res[p].status = 200 /\ res[p].total_countries = Cardinality(db)

\* three stored rows, one of them without a gdp, all returned
C14_Witness ==
  /\ pc[1] = "idle" /\ Unfiltered(call[1]) /\ res[1].status = 200
  /\ Len(res[1].data) = 3 /\ Cardinality(db) = 3
  /\ \E r \in db : r.estimated_gdp = None

\* ------------------------------------------------------------------ C15
\* a supplied filter value compared with a column, letter case ignored
SameIgnoringCase(column, value) ==
  column /= None /\ Lower(column[1]) = Lower(value[1])
\* the row satisfies every filter the request supplies
Satisfies(r, c) ==
  /\ Truthy(c.region) => SameIgnoringCase(r.region, c.region)
  /\ Truthy(c.currency) => SameIgnoringCase(r.currency_code, c.currency)

\* C15: a query answers with exactly the stored rows that satisfy every
\* supplied filter (region and currency both, letter case ignored), each row
\* once, whatever the sort value is (gdp_asc, gdp_desc in any case, or an
\* unrecognized one, which raises nothing); it answers NotFound exactly when
\* no stored row satisfies the filters.
C15_QueryReturnsExactlyMatchingRows ==
  \A p \in Procs :
    (pc[p] = "idle" /\ call[p].op = "query") =>
      LET S == {r \in db : Satisfies(r, call[p])} IN
      /\ res[p].status \in {200, 404}
      /\ res[p].status = 404 <=> S = {}
      /\ res[p].status = 200 =>
           RowsOf(res[p].data) = S /\ Len(res[p].data) = Cardinality(S)

\* ------------------------------------------------------------------ C16
\* the step is thread p's conn.commit() of a refresh, and it only inserts
\* rows or rewrites rows in place
RefreshCommits(p) ==
  /\ IsRefresh(p) /\ pc[p] = "r_loop" /\ pc'[p] = "r_count"
  /\ \A r \in db : \E n \in db' : n.id = r.id /\ n.name = r.name
\* the step is the end of thread p's delete, answered with success, and it
\* removes rows of the requested name only
DeleteSucceeds(p) ==
  /\ call[p].op = "delete" /\ pc[p] = "d_delete" /\ pc'[p] = "idle"
  /\ res'[p].status = 200
  /\ db' \subseteq db
  /\ \A r \in db \ db' : r.name = call[p].name

\* C16: the committed store changes only at the commit of a refresh (rows
\* inserted or updated) and at a delete that succeeds (rows of that name
\* removed).  A request of any kind that is answered with an error (a
\* query, lookup, status or image request, a delete answered NotFound, a
\* refresh answered 503, 400 or a server error) has left the committed
\* store as it would be without that request.
C16_OnlyRefreshAndDeleteWrite ==
  [][/\ db' /= db =>
          \E p \in Procs : RefreshCommits(p) \/ DeleteSucceeds(p)
     /\ \A p \in Procs :
          (pc'[p] = "idle" /\ res'[p].status >= 400) =>
            (before'[p] /= None /\ before'[p][1].db = db')]_vars

\* ------------------------------------------------------------------ C17
\* C17: when every call has returned, no connection opened by a call is
\* still open: each handler closed its connection on the path it took,
\* the paths ending in 503, 400 or 404 included.
C17_NoConnectionLeftOpen ==
  (\A p \in Procs : pc[p] = "idle") =>
    \A S \in DOMAIN orphans : orphans[S] = 0

\* ------------------------------------------------------------------ C18
\* thread p's refresh takes a step
RefreshSteps(p) ==
  IsRefresh(p) /\ pc[p] /= "idle" /\ (pc'[p] /= pc[p] \/ idx'[p] /= idx[p])

\* C18: no step of a refresh removes a row, and its commit leaves every row
\* whose name is not in the fetched list exactly as it was, its older
\* last_refreshed_at included.
C18_RefreshKeepsAbsentRows ==
  [][\A p \in Procs :
       RefreshSteps(p) =>
         /\ NamesOf(db) \subseteq NamesOf(db')
         /\ Cardinality(db') >= Cardinality(db)
         /\ pc'[p] = "r_count" =>
              \A r \in db : r.name \notin BatchNames(p) => r \in db']_vars

\* after a successful refresh the store holds a row of an earlier batch,
\* absent from the list just fetched, and the report counts it
C18_Witness ==
  /\ IsRefresh(1) /\ pc[1] = "idle" /\ res[1].status = 200
  /\ \E r \in db :
       /\ r.name \notin BatchNames(1)
       /\ r.last_refreshed_at < last_refreshed_at[1][1]
  /\ \E r \in db : r.last_refreshed_at = last_refreshed_at[1][1]
  /\ report /= None
  /\ report[1].total_countries = Cardinality(db)
  /\ Cardinality(db) > Cardinality(BatchNames(1))

\* ------------------------------------------------------------------ C19
\* C19: the status operation answers with the largest last_refreshed_at of
\* the rows stored when line 230 runs, and with null exactly when no row is
\* stored then; it never answers with a timestamp later than the stored
\* rows carry, so once the rows of the latest batch are deleted it reports
\* an earlier timestamp, or null.
C19_StatusReportsMaxStoredStamp ==
  [][\A p \in Procs :
       (pc[p] = "s_max" /\ pc'[p] = "idle") =>
         LET t == res'[p].last_refreshed_at IN
         /\ res'[p].status = 200
         /\ t = None <=> db = {}
         /\ t /= None =>
              /\ \E r \in db : r.last_refreshed_at = t[1]
              /\ \A r \in db : r.last_refreshed_at <= t[1]]_vars

\* a refresh succeeded and its report is cached, its rows were deleted
\* since, and status answers null with a count of 0
C19_Witness ==
  /\ call[1].op = "status" /\ pc[1] = "idle" /\ res[1].status = 200
  /\ report /= None
  /\ db = {}
  /\ res[1].last_refreshed_at = None
  /\ res[1].total_countries = 0

\* ------------------------------------------------------------------ C20
\* the fetched rate table lists the record's first currency code with rate 0
ZeroRated(p, country) ==
  /\ Truthy(FirstCode(country))
  /\ InRates(p, FirstCode(country)[1])
  /\ exchange_rate_data[p][1].rates[1][FirstCode(country)[1]] = 0
\* the refresh has ended, both fetches had succeeded and every record of
\* the list was valid
ValidRefreshEnded(p) ==
  /\ IsRefresh(p) /\ pc[p] = "idle"
  /\ country_data[p] /= None /\ exchange_rate_data[p] /= None
  /\ ~HasInvalid(p)

\* C20: a record whose currency has rate 0 is written with exchange_rate 0
\* and a null estimated_gdp, and does not stop the refresh: a refresh of
\* valid records ends with every record of its list committed (answered
\* 200, or a server error only if writing the report failed afterwards).
C20_ZeroRateNullGdpAndCommit ==
  \A p \in Procs :
    /\ pc[p] = "r_loop" =>
         \A i \in Processed(p) :
           ZeroRated(p, Batch(p)[i]) =>
             \E r \in tx[p] :
               /\ r.name = Batch(p)[i].name[1]
               /\ r.exchange_rate = Some(0)
               /\ r.estimated_gdp = None
    /\ ValidRefreshEnded(p) =>
         /\ res[p].status = 200 \/ res[p].details = "report"
         /\ \A i \in 1..Len(Batch(p)) :
              \E r \in db :
                /\ r.name = Batch(p)[i].name[1]
                /\ r.last_refreshed_at = last_refreshed_at[p][1]

\* a refresh answered 200 whose list has a rate-0 record followed by another
\* record: the first is stored with rate 0 and no gdp, the second with a gdp
C20_Witness ==
  /\ ValidRefreshEnded(1) /\ res[1].status = 200
  /\ Len(Batch(1)) = 2
  /\ ZeroRated(1, Batch(1)[1])
  /\ \E r \in db :
       /\ r.name = Batch(1)[1].name[1]
       /\ r.exchange_rate = Some(0) /\ r.estimated_gdp = None
       /\ r.last_refreshed_at = last_refreshed_at[1][1]
  /\ \E r \in db :
       /\ r.name = Batch(1)[2].name[1]
       /\ r.estimated_gdp /= None
       /\ r.last_refreshed_at = last_refreshed_at[1][1]

====
